---- MODULE Spec2Model ----
(***************************************************************************)
(* A model of cpy (src/index.js): one call of cpy(source, destination,     *)
(* options), from the construction of the handle to its settlement, with   *)
(* the progress aggregation done by fileProgressHandler.                   *)
(*                                                                         *)
(* Paths are records [abs, segs]: abs tells whether the path is absolute,  *)
(* segs is the sequence of its segments.  A segment is a pair              *)
(* <<stem, ext>>, e.g. <<"a", ".txt">> for a.txt and <<"sub", "">> for the *)
(* directory sub.  The empty string is [abs |-> FALSE, segs |-> <<>>].     *)
(***************************************************************************)
EXTENDS Integers, Sequences, FiniteSets, TLC

VARIABLES
    source,          \* the pattern strings of the call
    destination,     \* the destination argument
    options,         \* the merged options, with concurrency
    patterns,        \* the GlobPattern instances built from source
    pc,              \* position of the async body of cpy
    handle,          \* TRUE once cpy() has returned the promise to the caller
    patternIndex,    \* number of patterns the for loop has been through
    entries,         \* the entries (lines 164, 219, 226)
    verdicts,        \* pFilter: the predicate's outcome per entry
    copies,          \* pMap: state of the mapper of each entry
    written,         \* cp-file: bytes written so far by each copy
    result,          \* pMap: the result array
    copyStatus,      \* Map<src, {written, percent}>
    completedFiles,
    completedSize,
    emitted,         \* number of calls of progressEmitter.emit
    snapshot,        \* the snapshot of the last of them
    listening,       \* a 'progress' listener is attached
    received,        \* the listener has been called with a snapshot
    promise,         \* state of the returned promise
    failures,        \* history: the entries whose copy failed, in time order
    redelivered,     \* history: the step was a tick carrying the values recorded for its path
    nonDecreasing,   \* history: no tick lowered the written of its path
    percentKept,     \* history: no tick lowered a percent of 1 of its path
    afterSettle      \* history: the step emitted a snapshot of a settled operation

vars == <<source, destination, options, patterns, pc, handle, patternIndex, entries,
          verdicts, copies, written, result, copyStatus, completedFiles,
          completedSize, emitted, snapshot, listening, received, promise,
          failures, redelivered, nonDecreasing, percentKept, afterSettle>>

-----------------------------------------------------------------------------
(* Bounds of the model. *)

MaxPatterns == 2

MaxConcurrency == 2

MaxEntries == 3

MaxEmitted == 2

MaxTicks == 4

-----------------------------------------------------------------------------
(* Small helpers. *)

Min(a, b) == IF a < b THEN a ELSE b

Range(s) == {s[i] : i \in 1..Len(s)}

RECURSIVE SeqsUpTo(_, _)
SeqsUpTo(S, n) ==
    IF n = 0 THEN {<<>>}
    ELSE LET shorter == SeqsUpTo(S, n - 1)
         IN  shorter \cup {Append(s, x) : s \in shorter, x \in S}

RECURSIVE GCD(_, _)
GCD(a, b) == IF b = 0 THEN a ELSE GCD(b, a % b)

(* The quotient n / d of two numbers, d > 0, as a reduced fraction. *)
Quotient(n, d) == LET g == GCD(n, d) IN <<n \div g, d \div g>>

One == <<1, 1>>

Zero == <<0, 1>>

-----------------------------------------------------------------------------
(* The functions of node's path module that index.js uses (POSIX). *)

Path(abs, segs) == [abs |-> abs, segs |-> segs]

NoPath == Path(FALSE, <<>>)

DotDot == <<"..", "">>

RECURSIVE Normalize(_, _, _)
Normalize(abs, todo, done) ==
    IF todo = <<>> THEN done
    ELSE IF Head(todo) # DotDot THEN Normalize(abs, Tail(todo), Append(done, Head(todo)))
    ELSE IF done # <<>> /\ done[Len(done)] # DotDot
         THEN Normalize(abs, Tail(todo), SubSeq(done, 1, Len(done) - 1))
    ELSE IF abs THEN Normalize(abs, Tail(todo), done)
    ELSE Normalize(abs, Tail(todo), Append(done, DotDot))

RECURSIVE Concat(_)
Concat(parts) ==
    IF parts = <<>> THEN <<>> ELSE Head(parts).segs \o Concat(Tail(parts))

(* path.join: empty arguments are skipped, the rest are joined by the      *)
(* separator and the result is normalized.                                 *)
join(parts) ==
    LET given == SelectSeq(parts, LAMBDA p : p # NoPath)
    IN  IF given = <<>> THEN NoPath
        ELSE Path(Head(given).abs, Normalize(Head(given).abs, Concat(given), <<>>))

isAbsolute(p) == p.abs

basename(p) == IF p.segs = <<>> THEN NoPath ELSE Path(FALSE, <<p.segs[Len(p.segs)]>>)

extname(p) == IF p.segs = <<>> THEN "" ELSE p.segs[Len(p.segs)][2]

dirname(p) ==
    IF Len(p.segs) <= 1 /\ ~p.abs THEN NoPath
    ELSE Path(p.abs, SubSeq(p.segs, 1, Len(p.segs) - 1))

RECURSIVE CommonPrefix(_, _)
CommonPrefix(a, b) ==
    IF a = <<>> \/ b = <<>> \/ Head(a) # Head(b) THEN 0
    ELSE 1 + CommonPrefix(Tail(a), Tail(b))

(* path.relative of two absolute paths. *)
relative(from, to) ==
    LET k == CommonPrefix(from.segs, to.segs)
    IN  Path(FALSE, [i \in 1..(Len(from.segs) - k) |-> DotDot]
                    \o SubSeq(to.segs, k + 1, Len(to.segs)))

-----------------------------------------------------------------------------
(* The file system the call runs on, and the glob collaborator on it.      *)

Seg(stem, ext) == <<stem, ext>>

Cwd == Path(TRUE, <<Seg("w", "")>>)

FileA == Path(TRUE, <<Seg("w", ""), Seg("a", ".txt")>>)

FileB == Path(TRUE, <<Seg("w", ""), Seg("sub", ""), Seg("b", ".txt")>>)

(* The size cp-file stats for a source file. *)
SizeOf(path) == IF path = FileA THEN 1 ELSE 2

PatternTexts == {"a.txt", "nope.txt", "**/*.txt", "*.md", "locked/*"}

(* glob.hasMagic *)
GlobHasMagic(text) == text \in {"**/*.txt", "*.md", "locked/*", "sub/*.txt"}

(* What the glob engine does for a pattern: the paths it matches, in glob  *)
(* order, or the error it raises.                                          *)
GlobRaises(text) == text = "locked/*"

GlobSync(text) ==
    CASE text = "a.txt"     -> <<FileA>>
      [] text = "**/*.txt"  -> <<FileA, FileB>>
      [] text = "sub/*.txt" -> <<FileB>>
      [] text = "sub/b.txt" -> <<FileB>>
      [] OTHER              -> <<>>

(* new GlobPattern(pattern, destination, options) *)
GlobPattern(text, dest, opts) ==
    [originalPath   |-> text,
     magic          |-> GlobHasMagic(text),
     normalizedPath |-> IF text = "locked/*"
                        THEN join(<<opts.cwd, Path(FALSE, <<Seg("locked", "")>>)>>)
                        ELSE IF text = "sub/*.txt"
                        THEN join(<<opts.cwd, Path(FALSE, <<Seg("sub", "")>>)>>)
                        ELSE opts.cwd]

getMatches(pattern) == GlobSync(pattern.originalPath)

hasMagic(pattern) == pattern.magic

-----------------------------------------------------------------------------
(* Entry, preprocessDestinationPath, renameFile. *)

Entry(path, relativePath, pattern) ==
    [path |-> path, relativePath |-> relativePath, pattern |-> pattern]

EntryName(entry) == basename(entry.path)

(* The flat branch without lines 96-98: the destination always resolved    *)
(* against cwd.                                                            *)
preprocessDestinationPath_FlatUnderCwd(entry, dest, opts) ==
    IF hasMagic(entry.pattern)
    THEN IF opts.flat
         THEN join(<<opts.cwd, dest, EntryName(entry)>>)
         ELSE join(<<dest, relative(entry.pattern.normalizedPath, entry.path)>>)
    ELSE IF isAbsolute(dest)
         THEN join(<<dest, EntryName(entry)>>)
         ELSE join(<<opts.cwd, dest, relative(opts.cwd, entry.path)>>)

preprocessDestinationPath(entry, dest, opts) ==
    IF hasMagic(entry.pattern)
    THEN IF opts.flat
         THEN IF isAbsolute(dest)
              THEN join(<<dest, EntryName(entry)>>)
              ELSE join(<<opts.cwd, dest, EntryName(entry)>>)
         ELSE join(<<dest, relative(entry.pattern.normalizedPath, entry.path)>>)
    ELSE IF isAbsolute(dest)
         THEN join(<<dest, EntryName(entry)>>)
         ELSE join(<<opts.cwd, dest, relative(opts.cwd, entry.path)>>)

NoRename == [kind |-> "undefined", value |-> NoPath]

(* A rename given as a string, here "x.txt". *)
StringRename == [kind |-> "string", value |-> Path(FALSE, <<Seg("x", ".txt")>>)]

(* Renames given as strings with a directory in them: "nested/x.txt" and   *)
(* "../x.txt".                                                             *)
NestedRename ==
    [kind |-> "string", value |-> Path(FALSE, <<Seg("nested", ""), Seg("x", ".txt")>>)]

ParentRename == [kind |-> "string", value |-> Path(FALSE, <<DotDot, Seg("x", ".txt")>>)]

(* A rename given as a function, here name => `copy-${name}`. *)
FunctionRename == [kind |-> "function", value |-> NoPath]

CallRename(rename, filename) == <<"copy-", filename>>

renameFile(path, rename) ==
    LET ext      == extname(path)
        filename == IF path.segs = <<>> THEN "" ELSE path.segs[Len(path.segs)][1]
        dir      == dirname(path)
    IN  IF rename.kind = "string" THEN join(<<dir, rename.value>>)
        ELSE IF rename.kind = "function"
             THEN join(<<dir, Path(FALSE, <<Seg(CallRename(rename, filename), ext)>>)>>)
        ELSE path

(* The destination the mapper of pMap computes for an entry (275-282). *)
DestinationOf(entry, dest, opts) ==
    renameFile(preprocessDestinationPath(entry, dest, opts), opts.rename)

-----------------------------------------------------------------------------
(* Errors and the promise. *)

CpyError(kind, subject, to) == [kind |-> kind, subject |-> subject, to |-> to]

Pending == [state |-> "pending", value |-> <<>>, error |-> CpyError("", "", NoPath)]

Fulfilled(value) == [state |-> "fulfilled", value |-> value, error |-> CpyError("", "", NoPath)]

Rejected(error) == [state |-> "rejected", value |-> <<>>, error |-> error]

(* The last outcome wins. *)
Settle_Overwrite(p, outcome) == outcome

(* A promise settles once: reject and resolve of a settled promise do      *)
(* nothing (pMap's reject, 284-299).                                       *)
Settle(p, outcome) == IF p.state = "pending" THEN outcome ELSE p

-----------------------------------------------------------------------------
(* fileProgressHandler (241-270), piece by piece. *)

Snapshot(total, percent, files, size) ==
    [totalFiles |-> total, percent |-> percent,
     completedFiles |-> files, completedSize |-> size]

(* The percent computed as for the other snapshots, from 0 files. *)
EmptySnapshot_NoPercent == Snapshot(0, Zero, 0, 0)

(* The snapshot of an operation without entries (230-235). *)
EmptySnapshot == Snapshot(0, One, 0, 0)

(* progressEmitter.emit('progress', snapshot) *)
Emit(progress) ==
    /\ emitted' = emitted + 1
    /\ snapshot' = progress
    /\ received' = (received \/ listening)

NoEmit == UNCHANGED <<emitted, snapshot, received>>

(* The recorded status never read: every tick taken as the first. *)
FileStatus_Unrecorded(status, src) == [written |-> 0, percent |-> Zero]

(* copyStatus.get(event.src) || {written: 0, percent: 0} *)
FileStatus(status, src) ==
    IF src \in DOMAIN status THEN status[src] ELSE [written |-> 0, percent |-> Zero]

(* Every tick taken as a change. *)
StatusChanged_Always(fileStatus, event) == TRUE

(* The condition of line 247. *)
StatusChanged(fileStatus, event) ==
    fileStatus.written # event.written \/ fileStatus.percent # event.percent

(* The size set to the written of the tick, not moved by its delta. *)
NextCompletedSize_Absolute(size, fileStatus, event) == event.written

(* Lines 251-252. *)
NextCompletedSize(size, fileStatus, event) ==
    (size - fileStatus.written) + event.written

(* The test of the percent of the tick left out. *)
NextCompletedFiles_AnyPercent(files, fileStatus, event) ==
    IF fileStatus.percent # One THEN files + 1 ELSE files

(* Lines 254-256. *)
NextCompletedFiles(files, fileStatus, event) ==
    IF event.percent = One /\ fileStatus.percent # One THEN files + 1 ELSE files

(* copyStatus.set(event.src, {written, percent}) *)
SetStatus(status, event) ==
    [p \in DOMAIN status \cup {event.src} |->
        IF p = event.src
        THEN [written |-> event.written, percent |-> event.percent]
        ELSE status[p]]

fileProgressHandler(event) ==
    LET fileStatus == FileStatus(copyStatus, event.src)
    IN  /\ redelivered' = (event.written = fileStatus.written
                            /\ event.percent = fileStatus.percent)
        /\ nonDecreasing' = (nonDecreasing /\ event.written >= fileStatus.written)
        /\ percentKept' = (percentKept
                            /\ ~(fileStatus.percent = One /\ event.percent # One))
        /\ afterSettle' = (StatusChanged(fileStatus, event) /\ promise.state # "pending")
        /\ IF StatusChanged(fileStatus, event)
           THEN /\ completedSize' = NextCompletedSize(completedSize, fileStatus, event)
                /\ completedFiles' = NextCompletedFiles(completedFiles, fileStatus, event)
                /\ copyStatus' = SetStatus(copyStatus, event)
                /\ Emit(Snapshot(Len(entries),
                                 Quotient(completedFiles', Len(entries)),
                                 completedFiles', completedSize'))
           ELSE /\ UNCHANGED <<completedSize, completedFiles, copyStatus>>
                /\ NoEmit

(* The progress event cp-file emits when it sets written to value. *)
ProgressData(src, value) ==
    [src |-> src, written |-> value,
     percent |-> IF value = SizeOf(src) THEN One ELSE Quotient(value, SizeOf(src))]

-----------------------------------------------------------------------------
(* pMap (272-299): at most concurrency mappers run; a mapper that ends     *)
(* starts the next entry; the first rejection rejects the whole.           *)

(* Every entry started at once. *)
FirstBatch_All(n, concurrency) == 1..n

(* The entries pMap starts when it is called. *)
FirstBatch(n, concurrency) == 1..Min(n, concurrency)

(* No entry started after the first batch. *)
NextToStart_None(states) == {}

(* The entry pMap starts when a mapper has ended: the next one in order.   *)
NextToStart(states) ==
    LET waiting == {i \in DOMAIN states : states[i] = "waiting"}
    IN  IF waiting = {} THEN {}
        ELSE {CHOOSE i \in waiting : \A j \in waiting : i <= j}

(* The value pushed to the results as its mapper ends. *)
StoreResult_Push(res, index, value) ==
    LET free == {j \in DOMAIN res : res[j] = NoPath}
    IN  [res EXCEPT ![CHOOSE j \in free : \A k \in free : j <= k] = value]

(* result[index] = value *)
StoreResult(res, index, value) == [res EXCEPT ![index] = value]

InFlight(states) == {i \in DOMAIN states : states[i] \in {"running", "flushed"}}

(* Lines 229-299, run once the entries are final: the snapshot of an empty *)
(* operation, then the call of pMap.                                       *)
StartCopying(ents) ==
    /\ entries' = ents
    /\ IF Len(ents) = 0 THEN Emit(EmptySnapshot) ELSE NoEmit
    /\ copies' = [i \in 1..Len(ents) |->
                    IF i \in FirstBatch(Len(ents), options.concurrency)
                    THEN "running" ELSE "waiting"]
    /\ written' = [i \in 1..Len(ents) |-> 0]
    /\ result' = [i \in 1..Len(ents) |-> NoPath]
    /\ pc' = "Copying"
    /\ handle' = TRUE

-----------------------------------------------------------------------------
(* The call. *)

Destinations == {NoPath, Path(FALSE, <<Seg("out", "")>>)}

(* The renames the calls are made with; StringRename is the third form.    *)
Renames == {NoRename, FunctionRename}

(* options.filter: undefined, or a predicate over the entries.  The        *)
(* predicates are file => file.name === 'b.txt', () => false, and one that *)
(* throws for a.txt and holds for the rest.                                *)
Filters == {"undefined", "isB", "never", "failsOnA"}

FilterVerdict(filter, entry) ==
    CASE filter = "isB"      -> IF entry.path = FileB THEN "keep" ELSE "drop"
      [] filter = "never"    -> "drop"
      [] filter = "failsOnA" -> IF entry.path = FileA THEN "throw" ELSE "keep"

RECURSIVE Matched(_)
Matched(texts) ==
    IF texts = <<>> THEN 0 ELSE Len(GlobSync(Head(texts))) + Matched(Tail(texts))

Init ==
    /\ source \in SeqsUpTo(PatternTexts, MaxPatterns)
    /\ Matched(source) <= MaxEntries
    /\ destination \in Destinations
    /\ options \in [concurrency : 1..MaxConcurrency, flat : BOOLEAN, cwd : {Cwd},
                    rename : Renames, filter : Filters]
    /\ patterns = <<>>
    /\ pc = "Pending"
    /\ handle = FALSE
    /\ patternIndex = 0
    /\ entries = <<>>
    /\ verdicts = <<>>
    /\ copies = <<>>
    /\ written = <<>>
    /\ result = <<>>
    /\ copyStatus = <<>>
    /\ completedFiles = 0
    /\ completedSize = 0
    /\ emitted = 0
    /\ snapshot = Snapshot(0, Zero, 0, 0)
    /\ listening = FALSE
    /\ received = FALSE
    /\ promise = Pending
    /\ failures = <<>>
    /\ redelivered = FALSE
    /\ nonDecreasing = TRUE
    /\ percentKept = TRUE
    /\ afterSettle = FALSE

(* The async body throws: cpy returns a rejected promise. *)
Throw(error) ==
    /\ promise' = Settle(promise, Rejected(error))
    /\ pc' = "Settled"
    /\ handle' = TRUE

(* Only the patterns are looked at. *)
ArgumentsMissing_SourceOnly(src, dest) == Len(src) = 0

(* The condition of line 172: patterns.length === 0 || !destination. *)
ArgumentsMissing(src, dest) == Len(src) = 0 \/ dest = NoPath

(* Lines 170-196: the arguments are validated and the patterns built. *)
Validate ==
    /\ redelivered' = FALSE
    /\ afterSettle' = FALSE
    /\ pc = "Pending"
    /\ IF ArgumentsMissing(source, destination)
       THEN /\ Throw(CpyError("required", "", NoPath))
            /\ UNCHANGED patterns
       ELSE /\ patterns' = [i \in 1..Len(source) |->
                              GlobPattern(source[i], destination, options)]
            /\ pc' = "Resolving"
            /\ UNCHANGED <<promise, handle>>
    /\ UNCHANGED <<source, destination, options, patternIndex, entries,
                   verdicts, copies, written, result, copyStatus,
                   completedFiles, completedSize, emitted, snapshot, listening,
                   received, failures, nonDecreasing, percentKept>>

(* The entries a pattern adds (219-222). *)
EntriesOf(pattern, matches, opts) ==
    [i \in 1..Len(matches) |->
        Entry(matches[i], relative(opts.cwd, matches[i]), pattern)]

AddEntries(ents, more) == ents \o more

(* The condition left out. *)
SourceMissing_Never(matches, text) == FALSE

(* The condition of line 213: a pattern without wildcard matched nothing. *)
SourceMissing(matches, text) == Len(matches) = 0 /\ ~GlobHasMagic(text)

(* One iteration of the loop over the patterns (198-223). *)
Resolve ==
    /\ redelivered' = FALSE
    /\ afterSettle' = FALSE
    /\ pc = "Resolving"
    /\ patternIndex < Len(patterns)
    /\ LET pattern == patterns[patternIndex + 1]
           matches == getMatches(pattern)
       IN  IF GlobRaises(pattern.originalPath)
           THEN /\ Throw(CpyError("glob", pattern.originalPath, NoPath))
                /\ UNCHANGED <<entries, patternIndex>>
           ELSE IF SourceMissing(matches, pattern.originalPath)
           THEN /\ Throw(CpyError("missing", pattern.originalPath, NoPath))
                /\ UNCHANGED <<entries, patternIndex>>
           ELSE /\ entries' = AddEntries(entries, EntriesOf(pattern, matches, options))
                /\ patternIndex' = patternIndex + 1
                /\ UNCHANGED <<promise, pc, handle>>
    /\ UNCHANGED <<source, destination, options, patterns, verdicts, copies,
                   written, result, copyStatus, completedFiles, completedSize,
                   emitted, snapshot, listening, received, failures,
                   nonDecreasing, percentKept>>

(* The loop is over (225-299): with a filter the body awaits pFilter and   *)
(* cpy returns; without one it goes on to the copies before cpy returns.   *)
Resolved ==
    /\ redelivered' = FALSE
    /\ afterSettle' = FALSE
    /\ pc = "Resolving"
    /\ patternIndex = Len(patterns)
    /\ IF options.filter # "undefined"
       THEN /\ pc' = "Filtering"
            /\ handle' = TRUE
            /\ verdicts' = [i \in 1..Len(entries) |-> "pending"]
            /\ UNCHANGED <<entries, copies, written, result, emitted, snapshot, received>>
       ELSE /\ StartCopying(entries)
            /\ UNCHANGED verdicts
    /\ UNCHANGED <<source, destination, options, patterns, patternIndex,
                   copyStatus, completedFiles, completedSize, listening,
                   promise, failures, nonDecreasing, percentKept>>

(* pFilter: one evaluation of the predicate ends, in any order. *)
FilterEval(i) ==
    /\ redelivered' = FALSE
    /\ afterSettle' = FALSE
    /\ pc = "Filtering"
    /\ i \in DOMAIN verdicts
    /\ verdicts[i] = "pending"
    /\ LET verdict == FilterVerdict(options.filter, entries[i])
       IN  /\ verdicts' = [verdicts EXCEPT ![i] = verdict]
           /\ IF verdict = "throw"
              THEN Throw(CpyError("filter", "", NoPath))
              ELSE UNCHANGED <<promise, pc, handle>>
    /\ UNCHANGED <<source, destination, options, patterns, patternIndex,
                   entries, copies, written, result, copyStatus,
                   completedFiles, completedSize, emitted, snapshot, listening,
                   received, failures, nonDecreasing, percentKept>>

(* What pFilter resolves to: the entries whose verdict is true, in order.  *)
RECURSIVE Kept(_, _, _)
Kept(ents, v, i) ==
    IF i > Len(ents) THEN <<>>
    ELSE (IF v[i] = "keep" THEN <<ents[i]>> ELSE <<>>) \o Kept(ents, v, i + 1)

(* The entries the predicate does not hold for. *)
pFilter_Negated(ents, v) ==
    Kept(ents, [i \in DOMAIN v |-> IF v[i] = "keep" THEN "drop" ELSE "keep"], 1)

pFilter(ents, v) == Kept(ents, v, 1)

(* The await left out: the body goes on with what pFilter has so far. *)
AllEvaluated_NoAwait(v) == TRUE

(* pFilter resolves (the await of line 226 returns) once the predicate has *)
(* answered for every entry.                                               *)
AllEvaluated(v) == \A i \in DOMAIN v : v[i] \in {"keep", "drop"}

(* Every evaluation has ended: the body resumes after the await (226-299). *)
Filtered ==
    /\ redelivered' = FALSE
    /\ afterSettle' = FALSE
    /\ pc = "Filtering"
    /\ AllEvaluated(verdicts)
    /\ StartCopying(pFilter(entries, verdicts))
    /\ UNCHANGED <<source, destination, options, patterns, patternIndex,
                   verdicts, copyStatus, completedFiles, completedSize,
                   listening, promise, failures, nonDecreasing, percentKept>>

(* cp-file reports the bytes written so far by an in-flight copy; the      *)
(* model follows such reports while fewer than budget snapshots have been  *)
(* emitted.                                                                *)
TickWithin(i, value, budget) ==
    /\ i \in DOMAIN copies
    /\ copies[i] = "running"
    /\ emitted < budget
    /\ value >= written[i]
    /\ value \in 0..SizeOf(entries[i].path)
    /\ written' = [written EXCEPT ![i] = value]
    /\ fileProgressHandler(ProgressData(entries[i].path, value))
    /\ UNCHANGED <<source, destination, options, patterns, pc, handle,
                   patternIndex, entries, verdicts, copies, result, listening,
                   promise, failures>>

Tick(i, value) == TickWithin(i, value, MaxEmitted)

(* cp-file has written the whole file and reports its size as written. *)
FinalTick(i) ==
    /\ i \in DOMAIN copies
    /\ copies[i] = "running"
    /\ written' = [written EXCEPT ![i] = SizeOf(entries[i].path)]
    /\ copies' = [copies EXCEPT ![i] = "flushed"]
    /\ fileProgressHandler(ProgressData(entries[i].path, SizeOf(entries[i].path)))
    /\ UNCHANGED <<source, destination, options, patterns, pc, handle,
                   patternIndex, entries, verdicts, result, listening, promise,
                   failures>>

(* The copy of entry i ends: the mapper returns to, pMap stores it and,    *)
(* unless it has rejected, starts the next entry.                          *)
CopyDone(i) ==
    /\ redelivered' = FALSE
    /\ afterSettle' = FALSE
    /\ i \in DOMAIN copies
    /\ copies[i] = "flushed"
    /\ result' = StoreResult(result, i, DestinationOf(entries[i], destination, options))
    /\ LET ended == [copies EXCEPT ![i] = "done"]
       IN  copies' = IF promise.state = "rejected" THEN ended
                     ELSE [j \in DOMAIN ended |->
                             IF j \in NextToStart(ended) THEN "running" ELSE ended[j]]
    /\ UNCHANGED <<source, destination, options, patterns, pc, handle,
                   patternIndex, entries, verdicts, written, copyStatus,
                   completedFiles, completedSize, emitted, snapshot, listening,
                   received, promise, failures, nonDecreasing, percentKept>>

(* The error the mapper throws when cpFile rejects (289-294). *)
CopyError(entry, dest, opts) ==
    CpyError("copy", entry.relativePath, DestinationOf(entry, dest, opts))

(* The copy of entry i fails: the mapper throws and pMap rejects. *)
CopyFail(i) ==
    /\ redelivered' = FALSE
    /\ afterSettle' = FALSE
    /\ i \in DOMAIN copies
    /\ copies[i] \in {"running", "flushed"}
    /\ copies' = [copies EXCEPT ![i] = "failed"]
    /\ failures' = Append(failures, i)
    /\ promise' = Settle(promise, Rejected(CopyError(entries[i], destination, options)))
    /\ pc' = "Settled"
    /\ UNCHANGED <<source, destination, options, patterns, handle,
                   patternIndex, entries, verdicts, written, result,
                   copyStatus, completedFiles, completedSize, emitted,
                   snapshot, listening, received, nonDecreasing, percentKept>>

(* Every mapper has been started, none awaited. *)
AllCopied_Started(states) == \A i \in DOMAIN states : states[i] # "waiting"

(* Every mapper has returned, each after the await of its cpFile (285). *)
AllCopied(states) == \A i \in DOMAIN states : states[i] = "done"

(* Every mapper has returned: pMap resolves with the result array. *)
Fulfil ==
    /\ redelivered' = FALSE
    /\ afterSettle' = FALSE
    /\ pc = "Copying"
    /\ AllCopied(copies)
    /\ promise' = Settle(promise, Fulfilled(result))
    /\ pc' = "Settled"
    /\ UNCHANGED <<source, destination, options, patterns, handle,
                   patternIndex, entries, verdicts, copies, written, result,
                   copyStatus, completedFiles, completedSize, emitted,
                   snapshot, listening, received, failures, nonDecreasing,
                   percentKept>>

(* promise.on('progress', listener), called before the promise settles.   *)
Attach ==
    /\ redelivered' = FALSE
    /\ afterSettle' = FALSE
    /\ handle
    /\ promise.state = "pending"
    /\ ~listening
    /\ listening' = TRUE
    /\ UNCHANGED <<source, destination, options, patterns, pc, handle,
                   patternIndex, entries, verdicts, copies, written, result,
                   copyStatus, completedFiles, completedSize, emitted,
                   snapshot, received, promise, failures, nonDecreasing,
                   percentKept>>

MaxSize == SizeOf(FileB)

Next ==
    \/ Validate
    \/ Resolve
    \/ Resolved
    \/ \E i \in 1..MaxEntries : FilterEval(i)
    \/ Filtered
    \/ \E i \in 1..MaxEntries, value \in 0..MaxSize : Tick(i, value)
    \/ \E i \in 1..MaxEntries : FinalTick(i)
    \/ \E i \in 1..MaxEntries : CopyDone(i)
    \/ \E i \in 1..MaxEntries : CopyFail(i)
    \/ Fulfil
    \/ Attach

Spec == Init /\ [][Next]_vars

-----------------------------------------------------------------------------
(* The mapper's computation of to (275-282) for one entry, step by step:   *)
(* preprocessDestinationPath, then renameFile on what it returned.         *)

(* The patterns the entry comes from: literal and wildcarded, the base     *)
(* directory of the latter being cwd or a directory below it.              *)
DestinationTexts == {"a.txt", "sub/b.txt", "**/*.txt", "sub/*.txt"}

(* A relative destination, one that leaves cwd, and an absolute one. *)
DestinationRoots ==
    {Path(FALSE, <<Seg("out", "")>>),
     Path(FALSE, <<DotDot, Seg("up", "")>>),
     Path(TRUE, <<Seg("dst", "")>>)}

AllRenames == {NoRename, StringRename, NestedRename, ParentRename, FunctionRename}

DestinationInit ==
    /\ source \in {<<text>> : text \in DestinationTexts}
    /\ destination \in DestinationRoots
    /\ options \in [concurrency : {1}, flat : BOOLEAN, cwd : {Cwd},
                    rename : AllRenames, filter : {"undefined"}]
    /\ patterns = <<GlobPattern(source[1], destination, options)>>
    /\ entries \in {<<entry>> :
                      entry \in Range(EntriesOf(patterns[1], getMatches(patterns[1]),
                                                options))}
    /\ pc = "Mapper"
    /\ handle = FALSE
    /\ patternIndex = 1
    /\ verdicts = <<>>
    /\ copies = <<"running">>
    /\ written = <<0>>
    /\ result = <<NoPath>>
    /\ copyStatus = <<>>
    /\ completedFiles = 0
    /\ completedSize = 0
    /\ emitted = 0
    /\ snapshot = Snapshot(0, Zero, 0, 0)
    /\ listening = FALSE
    /\ received = FALSE
    /\ promise = Pending
    /\ failures = <<>>
    /\ redelivered = FALSE
    /\ nonDecreasing = TRUE
    /\ percentKept = TRUE
    /\ afterSettle = FALSE

(* preprocessDestinationPath({entry, destination, options}) returns. *)
Preprocess ==
    /\ pc = "Mapper"
    /\ result' = <<preprocessDestinationPath(entries[1], destination, options)>>
    /\ pc' = "Preprocessed"
    /\ UNCHANGED <<source, destination, options, patterns, handle,
                   patternIndex, entries, verdicts, copies, written,
                   copyStatus, completedFiles, completedSize, emitted,
                   snapshot, listening, received, promise, failures,
                   redelivered, nonDecreasing, percentKept, afterSettle>>

(* renameFile(path, options.rename) returns to. *)
Rename ==
    /\ pc = "Preprocessed"
    /\ result' = <<renameFile(result[1], options.rename)>>
    /\ pc' = "Renamed"
    /\ UNCHANGED <<source, destination, options, patterns, handle,
                   patternIndex, entries, verdicts, copies, written,
                   copyStatus, completedFiles, completedSize, emitted,
                   snapshot, listening, received, promise, failures,
                   redelivered, nonDecreasing, percentKept, afterSettle>>

DestinationNext == Preprocess \/ Rename

DestinationSpec == DestinationInit /\ [][DestinationNext]_vars

-----------------------------------------------------------------------------
(* The calls without filter and rename, to a relative destination, with    *)
(* more reports of cp-file followed per operation.                         *)

ProgressInit ==
    /\ Init
    /\ destination # NoPath
    /\ ~options.flat
    /\ options.rename = NoRename
    /\ options.filter = "undefined"

ProgressNext ==
    \/ Validate
    \/ Resolve
    \/ Resolved
    \/ \E i \in 1..MaxEntries, value \in 0..MaxSize : TickWithin(i, value, MaxTicks)
    \/ \E i \in 1..MaxEntries : FinalTick(i)
    \/ \E i \in 1..MaxEntries : CopyDone(i)
    \/ \E i \in 1..MaxEntries : CopyFail(i)
    \/ Fulfil

ProgressSpec == ProgressInit /\ [][ProgressNext]_vars

-----------------------------------------------------------------------------
(* The calls with flat and rename left at their defaults and no listener,  *)
(* under the scheduling the operation relies on.                           *)

FairInit ==
    /\ Init
    /\ ~options.flat
    /\ options.rename = NoRename

(* The steps that are bound to happen.  The synchronous stretches of the   *)
(* body run to their end, and the continuation of an await runs once the   *)
(* promise it awaits has settled (Filtered, Fulfil).  The operation takes  *)
(* for granted that every evaluation of the predicate ends and that every  *)
(* copy that was started goes on until it has completed or failed.  A      *)
(* report of cp-file before the last one (Tick) is never bound to happen.  *)
Advance ==
    \/ Validate
    \/ Resolve
    \/ Resolved
    \/ \E i \in 1..MaxEntries : FilterEval(i)
    \/ Filtered
    \/ \E i \in 1..MaxEntries : FinalTick(i)
    \/ \E i \in 1..MaxEntries : CopyDone(i)
    \/ \E i \in 1..MaxEntries : CopyFail(i)
    \/ Fulfil

FairNext ==
    \/ Advance
    \/ \E i \in 1..MaxEntries, value \in 0..MaxSize : Tick(i, value)

FairSpec == FairInit /\ [][FairNext]_vars /\ WF_vars(Advance)

-----------------------------------------------------------------------------
(* Progress. *)

(* C1: within one operation, as long as no tick has lowered the written    *)
(* value recorded for its source path, each emitted snapshot has a         *)
(* completedFiles and a completedSize at least those of the snapshot       *)
(* emitted before it.                                                      *)
C1_ProgressNonDecreasing ==
    [][(nonDecreasing' /\ emitted > 0 /\ emitted' > emitted)
         => /\ snapshot'.completedFiles >= snapshot.completedFiles
            /\ snapshot'.completedSize >= snapshot.completedSize]_vars

(* Two files have ticked, in three snapshots or more, none lowering the    *)
(* written of its path.                                                    *)
C1_Witness ==
    /\ nonDecreasing
    /\ emitted >= 3
    /\ Cardinality(DOMAIN copyStatus) = 2
    /\ snapshot.completedSize >= 2

(* C2: when an operation with at least one entry has resolved (every copy  *)
(* succeeded, each after a last tick with percent 1), the last snapshot    *)
(* emitted has completedFiles = totalFiles and percent = 1.                *)
C2_FinalSnapshotComplete ==
    (promise.state = "fulfilled" /\ Len(entries) > 0)
        => /\ emitted > 0
           /\ snapshot.completedFiles = snapshot.totalFiles
           /\ snapshot.percent = One

(* C3, for the operation it singles out, one that resolves to zero         *)
(* entries: when the operation has settled, a listener attached before     *)
(* the settlement has received a snapshot.                                 *)
C3_ListenerReceivesSnapshot ==
    (promise.state = "fulfilled" /\ Len(entries) = 0 /\ listening) => received

-----------------------------------------------------------------------------
(* The copies. *)

(* The entries in production order: patterns in input order, the matches   *)
(* of each in glob order.                                                  *)
RECURSIVE Produced(_, _, _)
Produced(texts, dest, opts) ==
    IF texts = <<>> THEN <<>>
    ELSE LET pattern == GlobPattern(Head(texts), dest, opts)
         IN  EntriesOf(pattern, GlobSync(Head(texts)), opts)
             \o Produced(Tail(texts), dest, opts)

(* Those of them the filter holds for. *)
Retained ==
    LET produced == Produced(source, destination, options)
    IN  IF options.filter = "undefined" THEN produced
        ELSE SelectSeq(produced, LAMBDA e : FilterVerdict(options.filter, e) = "keep")

(* C4: a resolved operation resolves with one destination path per         *)
(* retained entry, the i-th being the destination of the i-th retained     *)
(* entry in production order.                                              *)
C4_ResultsInEntryOrder ==
    promise.state = "fulfilled"
        => promise.value = [i \in 1..Len(Retained) |->
                              DestinationOf(Retained[i], destination, options)]

(* An operation has resolved with two different destinations or more.      *)
C4_Witness ==
    /\ promise.state = "fulfilled"
    /\ Len(promise.value) >= 2
    /\ promise.value[1] # promise.value[2]
    /\ options.concurrency >= 2

(* C5: the copies started and neither completed nor failed are at most     *)
(* options.concurrency.                                                    *)
C5_ConcurrencyBound ==
    Cardinality(InFlight(copies)) <= options.concurrency

(* The limit binds: concurrency copies are in flight and an entry waits.   *)
C5_Witness ==
    /\ options.concurrency = MaxConcurrency
    /\ Cardinality(InFlight(copies)) = options.concurrency
    /\ \E i \in DOMAIN copies : copies[i] = "waiting"

(* C6: once a copy has failed the operation is rejected, with no list of   *)
(* destinations, and its error is the one of the copy that failed first in *)
(* time, carrying that entry's relative source path and its destination.   *)
C6_FirstFailureSurfaces ==
    failures # <<>>
        => LET first == entries[failures[1]]
           IN  /\ promise.state = "rejected"
               /\ promise.value = <<>>
               /\ promise.error =
                    CpyError("copy", relative(options.cwd, first.path),
                             DestinationOf(first, destination, options))

(* Two copies have failed, the later entry first. *)
C6_Witness ==
    /\ Len(failures) >= 2
    /\ failures[1] > failures[2]
    /\ entries[failures[1]].path # entries[failures[2]].path
    /\ promise.state = "rejected"

-----------------------------------------------------------------------------
(* The patterns. *)

(* Pattern i has no wildcard and names a file that does not exist. *)
MissingLiteral(i) == ~GlobHasMagic(source[i]) /\ GlobSync(source[i]) = <<>>

(* Pattern i stops the resolution. *)
Offending(i) == GlobRaises(source[i]) \/ MissingLiteral(i)

(* No filter evaluation, no copy, no snapshot. *)
NothingStarted ==
    /\ pc \notin {"Filtering", "Copying"}
    /\ verdicts = <<>>
    /\ copies = <<>>
    /\ emitted = 0

(* C7 as stated: with a pattern without wildcard naming a file that does   *)
(* not exist, the operation fails with SourceNotFoundError, and no filter  *)
(* evaluation, no copy and no snapshot happens.                            *)
C7_MissingSourceFails ==
    (\E i \in DOMAIN source : MissingLiteral(i))
        => /\ NothingStarted
           /\ promise.state # "fulfilled"
           /\ promise.state = "rejected" => promise.error.kind = "missing"

(* The first error the body meets. *)
FirstError ==
    IF Len(source) = 0 \/ destination = NoPath THEN CpyError("required", "", NoPath)
    ELSE LET k == CHOOSE i \in DOMAIN source :
                      Offending(i) /\ \A j \in 1..(i - 1) : ~Offending(j)
         IN  CpyError(IF GlobRaises(source[k]) THEN "glob" ELSE "missing",
                      source[k], NoPath)

(* C7, amended: with a pattern without wildcard naming a file that does    *)
(* not exist, the operation fails before any copy begins, with the first   *)
(* error its body meets: the missing-argument error when no destination is *)
(* given, the glob error of an earlier pattern whose resolution raises,    *)
(* and SourceNotFoundError for the first such pattern otherwise.  No       *)
(* filter evaluation, no copy and no snapshot happens.                     *)
C7_MissingSourceFailsFirst ==
    (\E i \in DOMAIN source : MissingLiteral(i))
        => /\ NothingStarted
           /\ promise.state # "fulfilled"
           /\ promise.state = "rejected" => promise.error = FirstError

(* The operation has failed for its second pattern, after the first had    *)
(* matched a file.                                                         *)
C7_Witness ==
    /\ Len(source) = 2
    /\ MissingLiteral(2)
    /\ Len(entries) > 0
    /\ promise.state = "rejected"
    /\ promise.error = CpyError("missing", source[2], NoPath)

(* The call has its arguments, every pattern resolves, and the filter      *)
(* throws for no entry and holds for none.                                 *)
RetainsNothing ==
    /\ Len(source) > 0
    /\ destination # NoPath
    /\ \A i \in DOMAIN source : ~Offending(i)
    /\ \A e \in Range(Produced(source, destination, options)) :
          options.filter # "undefined" => FilterVerdict(options.filter, e) = "drop"
    /\ Retained = <<>>

(* C8: an operation whose patterns match no file, or whose filter rejects  *)
(* every entry, is not rejected, resolves with an empty result, and emits  *)
(* one snapshot, {totalFiles: 0, percent: 1, completedFiles: 0,            *)
(* completedSize: 0}, by the time it reaches the copies.                   *)
C8_EmptyOperation ==
    RetainsNothing
        => /\ promise.state # "rejected"
           /\ emitted <= 1
           /\ emitted = 1 => snapshot = Snapshot(0, One, 0, 0)
           /\ pc \in {"Copying", "Settled"} => emitted = 1
           /\ promise.state = "fulfilled" => promise.value = <<>>

(* A wildcarded pattern that matches nothing has resolved. *)
C8_Witness ==
    /\ source = <<"*.md">>
    /\ options.filter = "undefined"
    /\ promise.state = "fulfilled"
    /\ emitted = 1

(* C9: a step that delivers a tick carrying the (written, percent)         *)
(* recorded for its source path emits no snapshot and leaves               *)
(* completedFiles, completedSize and the status map as they were.          *)
C9_RedeliveryIsNoOp ==
    [][redelivered'
         => /\ emitted' = emitted
            /\ snapshot' = snapshot
            /\ completedFiles' = completedFiles
            /\ completedSize' = completedSize
            /\ copyStatus' = copyStatus]_vars

(* The tick of a.txt has been delivered again. *)
C9_Witness ==
    /\ redelivered
    /\ source = <<"a.txt">>
    /\ FileA \in DOMAIN copyStatus
    /\ emitted = 1

(* C10: no source path appears twice in the entries. *)
C10_EntriesDeduplicated ==
    \A i, j \in DOMAIN entries : i # j => entries[i].path # entries[j].path

-----------------------------------------------------------------------------
(* The arguments. *)

(* C11: a call with no source pattern or with no destination fails with    *)
(* the missing-argument error and with nothing done: no pattern object is  *)
(* built, no pattern is resolved, no entry is made, no filter evaluation   *)
(* or copy starts and no snapshot is emitted.                              *)
C11_MissingArgumentFailsFast ==
    (Len(source) = 0 \/ destination = NoPath)
        => /\ patterns = <<>>
           /\ patternIndex = 0
           /\ entries = <<>>
           /\ NothingStarted
           /\ pc \in {"Pending", "Settled"}
           /\ pc = "Settled" => promise = Rejected(CpyError("required", "", NoPath))

(* A call with patterns, one of them naming a file that does not exist,    *)
(* and no destination has failed.                                          *)
C11_Witness ==
    /\ Len(source) = 2
    /\ MissingLiteral(1)
    /\ destination = NoPath
    /\ pc = "Settled"
    /\ promise.state = "rejected"
    /\ promise.error.kind = "required"

-----------------------------------------------------------------------------
(* The destination paths. *)

(* destinationRoot: the destination as given when absolute, resolved       *)
(* against cwd otherwise.                                                  *)
DestinationRoot(dest, opts) == IF dest.abs THEN dest ELSE join(<<opts.cwd, dest>>)

(* The three policies: flat, structured, plain. *)
PolicyDestination(entry, dest, opts) ==
    LET name == Path(FALSE, <<entry.path.segs[Len(entry.path.segs)]>>)
    IN  CASE entry.pattern.magic /\ opts.flat ->
               join(<<DestinationRoot(dest, opts), name>>)
          [] entry.pattern.magic /\ ~opts.flat ->
               join(<<dest, relative(entry.pattern.normalizedPath, entry.path)>>)
          [] ~entry.pattern.magic /\ dest.abs ->
               join(<<dest, name>>)
          [] ~entry.pattern.magic /\ ~dest.abs ->
               join(<<opts.cwd, dest, relative(opts.cwd, entry.path)>>)

(* C12: for every entry, destination and flat setting, what                *)
(* preprocessDestinationPath returns is the path of the three-policy rule: *)
(* the entry's name under the destination root for a wildcarded pattern in *)
(* flat mode, the path relative to the pattern's base directory under the  *)
(* destination for a wildcarded pattern otherwise, and for a pattern       *)
(* without wildcard the name under an absolute destination or the path     *)
(* relative to cwd under cwd/destination.                                  *)
C12_DestinationByPolicy ==
    pc = "Preprocessed"
        => result = <<PolicyDestination(entries[1], destination, options)>>

(* The file of a subdirectory, matched by a wildcarded pattern whose base  *)
(* directory is that subdirectory, goes structured to a relative           *)
(* destination: out/b.txt, the subdirectory left out.                      *)
C12_Witness ==
    /\ pc = "Preprocessed"
    /\ source = <<"sub/*.txt">>
    /\ ~options.flat
    /\ result = <<Path(FALSE, <<Seg("out", ""), Seg("b", ".txt")>>)>>

(* The last segment of a path without its extension. *)
Stem(path) == path.segs[Len(path.segs)][1]

(* C13: renameFile never alters the directory of the path: without a       *)
(* rename the path is returned as it is; with a string or a function the   *)
(* directory of the result is the directory of the path, and with a        *)
(* function the filename of the result is what the function returns for    *)
(* the name without extension, followed by the extension of the path.      *)
C13_RenameKeepsDirectory ==
    pc = "Renamed"
        => LET path == preprocessDestinationPath(entries[1], destination, options)
               to   == result[1]
           IN  /\ options.rename.kind = "undefined" => to = path
               /\ options.rename.kind \in {"string", "function"}
                     => dirname(to) = dirname(path)
               /\ options.rename.kind = "function"
                     => /\ to.segs # <<>>
                        /\ to.segs[Len(to.segs)]
                             = Seg(CallRename(options.rename, Stem(path)), extname(path))

-----------------------------------------------------------------------------
(* The phases. *)

(* The place of a position of the body in the order of the phases. *)
Phase(position) ==
    CASE position = "Pending"   -> 0
      [] position = "Resolving" -> 1
      [] position = "Filtering" -> 2
      [] position = "Copying"   -> 3
      [] position = "Settled"   -> 4

(* Every pattern has been resolved and, with a filter, the predicate has   *)
(* answered for every entry the patterns produced.                         *)
ReadyToCopy ==
    /\ patternIndex = Len(source)
    /\ options.filter # "undefined"
          => /\ Len(verdicts) = Len(Produced(source, destination, options))
             /\ \A i \in DOMAIN verdicts : verdicts[i] \in {"keep", "drop"}

(* C14: the operation goes through its phases in order, Resolving,         *)
(* Filtering (with a filter), Copying, Settled, never back; a copy has     *)
(* started only when every pattern has been resolved and, with a filter,   *)
(* the filter has been evaluated for every entry; and a settled operation  *)
(* keeps the outcome it settled with.                                      *)
C14_PhasesInOrder ==
    /\ []((pc = "Copying" \/ copies # <<>>) => ReadyToCopy)
    /\ [][/\ Phase(pc') >= Phase(pc)
          /\ (pc' = "Filtering" /\ pc # "Filtering") => pc = "Resolving"
          /\ (pc' = "Copying" /\ pc # "Copying") => pc \in {"Resolving", "Filtering"}
          /\ (pc = "Resolving" /\ pc' = "Copying") => options.filter = "undefined"
          /\ promise.state # "pending" => promise' = promise
          /\ promise'.state # "pending" => pc' = "Settled"]_vars

(* An operation with a filter that dropped one entry of two has copied the *)
(* other and resolved.                                                     *)
C14_Witness ==
    /\ options.filter = "isB"
    /\ Len(verdicts) = 2
    /\ Len(copies) = 1
    /\ pc = "Settled"
    /\ promise.state = "fulfilled"

-----------------------------------------------------------------------------
(* The aggregation. *)

(* The sum of the written values recorded for the paths in paths. *)
RECURSIVE WrittenOf(_, _)
WrittenOf(status, paths) ==
    IF paths = {} THEN 0
    ELSE LET p == CHOOSE q \in paths : TRUE
         IN  status[p].written + WrittenOf(status, paths \ {p})

(* C15: whatever the interleaving of the ticks of the copies in flight,    *)
(* completedSize is the sum, over the source paths of the status map, of   *)
(* the written value last recorded for each.                               *)
C15_SizeIsSumOfWritten ==
    completedSize = WrittenOf(copyStatus, DOMAIN copyStatus)

(* Two copies in flight at once have ticked in turn, one of them twice:    *)
(* three snapshots, both files written whole.                              *)
C15_Witness ==
    /\ options.concurrency >= 2
    /\ Cardinality(DOMAIN copyStatus) = 2
    /\ emitted >= 3
    /\ completedSize = SizeOf(FileA) + SizeOf(FileB)

(* The source paths whose recorded percent is 1. *)
CompletePaths(status) == {p \in DOMAIN status : status[p].percent = One}

(* C16: completedFiles grows by one in the steps that move the recorded    *)
(* percent of a source path to 1 from another value, and in no other: a    *)
(* tick with percent 1 for a path already at 1 leaves it as it is.  As     *)
(* long as no path's percent has dropped after reaching 1, completedFiles  *)
(* is the number of source paths whose recorded percent is 1.              *)
C16_CompletedFilesCountsPaths ==
    /\ [](percentKept => completedFiles = Cardinality(CompletePaths(copyStatus)))
    /\ [][completedFiles' =
            completedFiles
              + Cardinality(CompletePaths(copyStatus') \ CompletePaths(copyStatus))]_vars

(* Two entries share a path: the last tick of the second copy found the    *)
(* path at percent 1 already, and the third entry has completed as well.   *)
C16_Witness ==
    /\ redelivered
    /\ percentKept
    /\ Len(entries) = 3
    /\ completedFiles = 2
    /\ Cardinality(CompletePaths(copyStatus)) = 2

-----------------------------------------------------------------------------
(* The filter. *)

(* pMap has been called: the body is in the copies, or it has settled with *)
(* the outcome of pMap.                                                    *)
CopyPhaseEntered ==
    \/ pc = "Copying"
    \/ promise.state = "fulfilled"
    \/ failures # <<>>

(* C17: with a filter, the entries the copies are made of are the entries  *)
(* the patterns produced for which the predicate holds, each as often as   *)
(* it was produced, whatever the order in which the evaluations ended.     *)
C17_FilterKeepsExactly ==
    (options.filter # "undefined" /\ CopyPhaseEntered)
        => entries = SelectSeq(Produced(source, destination, options),
                               LAMBDA e : FilterVerdict(options.filter, e) = "keep")

(* Of three entries produced the predicate held for one, the last: it is   *)
(* the one being copied.                                                   *)
C17_Witness ==
    /\ options.filter = "isB"
    /\ Len(verdicts) = 3
    /\ pc = "Copying"
    /\ Len(entries) = 1
    /\ entries[1].path = FileB
    /\ copies = <<"running">>

-----------------------------------------------------------------------------
(* The snapshots. *)

(* C18: every snapshot emitted is well-formed: totalFiles is the number of *)
(* entries retained, completedFiles lies between 0 and totalFiles, and     *)
(* percent is completedFiles / totalFiles, or 1 when totalFiles is 0.      *)
C18_SnapshotWellFormed ==
    emitted > 0
        => /\ snapshot.totalFiles = Len(entries)
           /\ 0 <= snapshot.completedFiles
           /\ snapshot.completedFiles <= snapshot.totalFiles
           /\ snapshot.percent = IF snapshot.totalFiles = 0 THEN One
                                  ELSE Quotient(snapshot.completedFiles,
                                                snapshot.totalFiles)

(* C19 as stated: once the operation has settled, as success or as         *)
(* failure, no snapshot is emitted to a listener any more, the ticks of    *)
(* the copies in flight at the first failure included.                     *)
C19_NoSnapshotAfterSettlement ==
    [][(promise.state # "pending" /\ listening) => emitted' = emitted]_vars

(* C19, amended: once the operation has settled as success, no snapshot is *)
(* emitted any more.  Once it has settled as failure no copy is started    *)
(* any more, but the copies in flight at the first failure are not         *)
(* aborted: a snapshot emitted from then on comes from a tick of one of    *)
(* them, and the outcome of the operation stays what it was.               *)
C19_SnapshotsAfterSettlement ==
    [][/\ promise.state = "fulfilled" => emitted' = emitted
       /\ promise.state = "rejected"
            => /\ \A i \in DOMAIN copies :
                    copies[i] = "waiting" => copies'[i] = "waiting"
               /\ emitted' # emitted
                    => /\ emitted' = emitted + 1
                       /\ \E i \in DOMAIN copies :
                             /\ copies[i] = "running"
                             /\ FileStatus(copyStatus', entries[i].path).written
                                  = written'[i]
                       /\ promise' = promise]_vars

(* The copy of one file has failed with a listener attached, and a tick of *)
(* the copy of the other file, in flight since before, has just emitted a  *)
(* snapshot that the listener received.                                    *)
C19_Witness ==
    /\ afterSettle
    /\ promise.state = "rejected"
    /\ Len(failures) = 1
    /\ listening
    /\ received
    /\ emitted = 1

-----------------------------------------------------------------------------
(* Termination. *)

(* C20: when every filter evaluation ends and every copy that was started  *)
(* completes or fails, the operation settles.  It resolves only when every *)
(* retained entry has been copied, and it is rejected as soon as a copy    *)
(* has failed, whatever copies are still in flight.                        *)
C20_EventuallySettles ==
    /\ <>(promise.state # "pending")
    /\ [](promise.state = "fulfilled"
            => /\ Len(copies) = Len(Retained)
               /\ \A i \in DOMAIN copies : copies[i] = "done")
    /\ [](failures # <<>> => promise.state = "rejected")

(* The operation is rejected for the failure of one copy while other       *)
(* entries are in flight or still wait.                                    *)
C20_Witness ==
    /\ promise.state = "rejected"
    /\ Len(failures) = 1
    /\ InFlight(copies) # {}
    /\ \E i \in DOMAIN copies : copies[i] = "waiting"

====
